---- MODULE Spec2Model ----
(***************************************************************************)
(* CachedDataset (kedro/io/cached_dataset.py): a dataset wrapper that      *)
(* keeps, next to the wrapped dataset (`_dataset`), a MemoryDataset        *)
(* (`_cache`) holding the data last loaded or saved.                       *)
(*                                                                         *)
(* The model has two wrapper objects, one configuration dictionary and one *)
(* persisted value that every wrapped dataset reads and writes.  Each      *)
(* method of the class is one action; what the call did (the calls it made *)
(* on `_cache` and `_dataset`, in order, what it returned or raised) is    *)
(* kept in `last`.                                                         *)
(*                                                                         *)
(* The class takes no lock.  A second specification, SpecConc, runs load   *)
(* and save calls of several threads on one wrapper, one call on `_cache`  *)
(* or `_dataset` at a time, in any order.                                  *)
(***************************************************************************)
EXTENDS Integers, Sequences, FiniteSets, TLC

VARIABLES
    config,     \* the dict handed to CachedDataset(dataset=<dict>, ...)
    store,      \* the data the wrapped dataset persists (NoData: nothing saved)
    wrapper,    \* wrapper[w]: the CachedDataset object w (its __dict__)
    last,       \* the last call made on a wrapper and its outcome
    thread      \* thread[t]: the call thread t is in the middle of, if any

vars == <<config, store, wrapper, last, thread>>

(***************************************************************************)
(* Bounds and value sets.                                                  *)
(***************************************************************************)
MaxVal == 2

Values == 1..MaxVal

Wrappers == {1, 2}

MaxThreads == 2

Threads == 1..MaxThreads

\* MemoryDataset's sentinel for "holds no data"
EMPTY == 0

\* the wrapped dataset has nothing persisted
NoData == 0

VersionIds == {"None", "v1", "v2"}

NoVersion == [given |-> FALSE, load |-> "None", save |-> "None"]

\* version: Version | None; Version is a (load, save) named tuple
Versions ==
    { NoVersion,
      [given |-> TRUE, load |-> "None", save |-> "None"],
      [given |-> TRUE, load |-> "v1", save |-> "v2"] }

\* the copy_mode and metadata arguments a caller passes
Options ==
    { [copy_mode |-> "None", metadata |-> "None"],
      [copy_mode |-> "assign", metadata |-> "meta"] }

VERSIONED_FLAG_KEY == "versioned"

\* the dictionaries a caller may hand in: without the flag, with it set,
\* with it present but false
Configs ==
    { [type |-> "T"],
      [type |-> "T", versioned |-> TRUE],
      [type |-> "T", versioned |-> FALSE] }

Sources == {"dict", "dataset", "other"}

(***************************************************************************)
(* The collaborators: the wrapped dataset and the MemoryDataset.  A call   *)
(* named in the fault set f raises, and a call that raises changes         *)
(* nothing.  `ev` is the entry the call leaves in the log of calls: its    *)
(* name, followed by "!" when it raised.                                   *)
(***************************************************************************)
DatasetLoad(s, f) ==
    IF "dataset.load" \in f \/ s = NoData
    THEN [ok |-> FALSE, val |-> 0, ev |-> "dataset.load!"]
    ELSE [ok |-> TRUE, val |-> s, ev |-> "dataset.load"]

DatasetSave(s, data, f) ==
    IF "dataset.save" \in f
    THEN [ok |-> FALSE, store |-> s, ev |-> "dataset.save!"]
    ELSE [ok |-> TRUE, store |-> data, ev |-> "dataset.save"]

DatasetExists(s, f) ==
    IF "dataset.exists" \in f
    THEN [ok |-> FALSE, ret |-> FALSE, ev |-> "dataset.exists!"]
    ELSE [ok |-> TRUE, ret |-> s # NoData, ev |-> "dataset.exists"]

DatasetRelease(f) ==
    IF "dataset.release" \in f
    THEN [ok |-> FALSE, ev |-> "dataset.release!"]
    ELSE [ok |-> TRUE, ev |-> "dataset.release"]

NewCache(copy_mode) == [data |-> EMPTY, copy_mode |-> copy_mode]

CacheExists(c) == c.data # EMPTY

CacheLoad(c) ==
    IF c.data = EMPTY
    THEN [ok |-> FALSE, val |-> 0, ev |-> "cache.load!"]
    ELSE [ok |-> TRUE, val |-> c.data, ev |-> "cache.load"]

CacheSave(c, data, f) ==
    IF "cache.save" \in f
    THEN [ok |-> FALSE, cache |-> c, ev |-> "cache.save!"]
    ELSE [ok |-> TRUE, cache |-> [c EXCEPT !.data = data], ev |-> "cache.save"]

CacheRelease(c) == [c EXCEPT !.data = EMPTY]

\* AbstractDataset.from_config(name, config, load_version, save_version)
NoFactoryCall ==
    [called |-> FALSE, name |-> "", config |-> [type |-> "T"],
     load_version |-> "None", save_version |-> "None"]

FromConfig(name, cfg, load_version, save_version, f) ==
    [ok |-> "from_config" \notin f,
     ev |-> IF "from_config" \in f THEN "from_config!" ELSE "from_config",
     dataset |-> "made",
     call |-> [called |-> TRUE, name |-> name, config |-> cfg,
               load_version |-> load_version, save_version |-> save_version]]

(***************************************************************************)
(* The wrapper object.                                                     *)
(***************************************************************************)
NoWrapper ==
    [built |-> FALSE, EPHEMERAL |-> FALSE, dataset |-> "none",
     cache |-> NewCache("None"), metadata |-> "None"]

\* `if version:` -- a Version is a two-field tuple, true whatever it holds
Truthy(version) == version.given

\* config[VERSIONED_FLAG_KEY] = True
SetFlag(cfg) ==
    [k \in DOMAIN cfg \cup {VERSIONED_FLAG_KEY} |->
        IF k = VERSIONED_FLAG_KEY THEN TRUE ELSE cfg[k]]

\* the exception a raising call lets through: named after the call
Raised(ev) == SubSeq(ev, 1, Len(ev) - 1)

\* _from_config that refuses the flag only when a version is given
_from_config_unless_unversioned(cfg, version, f) ==
    IF Truthy(version)
    THEN IF VERSIONED_FLAG_KEY \in DOMAIN cfg
         THEN [ok |-> FALSE, err |-> "ValueError", dataset |-> "none",
               config |-> cfg, factory |-> NoFactoryCall, calls |-> <<>>]
         ELSE LET marked == SetFlag(cfg)
                  r == FromConfig("_cached", marked, version.load, version.save, f)
              IN  [ok |-> r.ok, err |-> IF r.ok THEN "" ELSE Raised(r.ev),
                   dataset |-> IF r.ok THEN r.dataset ELSE "none",
                   config |-> marked, factory |-> r.call, calls |-> <<r.ev>>]
    ELSE LET r == FromConfig("_cached", cfg, "None", "None", f)
         IN  [ok |-> r.ok, err |-> IF r.ok THEN "" ELSE Raised(r.ev),
              dataset |-> IF r.ok THEN r.dataset ELSE "none",
              config |-> cfg, factory |-> r.call, calls |-> <<r.ev>>]

\* _from_config that takes a Version with neither half set for no version
_from_config_unset_is_none(cfg, version, f) ==
    IF VERSIONED_FLAG_KEY \in DOMAIN cfg
    THEN [ok |-> FALSE, err |-> "ValueError", dataset |-> "none",
          config |-> cfg, factory |-> NoFactoryCall, calls |-> <<>>]
    ELSE IF Truthy(version) /\ (version.load # "None" \/ version.save # "None")
    THEN LET marked == SetFlag(cfg)
             r == FromConfig("_cached", marked, version.load, version.save, f)
         IN  [ok |-> r.ok, err |-> IF r.ok THEN "" ELSE Raised(r.ev),
              dataset |-> IF r.ok THEN r.dataset ELSE "none",
              config |-> marked, factory |-> r.call, calls |-> <<r.ev>>]
    ELSE LET r == FromConfig("_cached", cfg, "None", "None", f)
         IN  [ok |-> r.ok, err |-> IF r.ok THEN "" ELSE Raised(r.ev),
              dataset |-> IF r.ok THEN r.dataset ELSE "none",
              config |-> cfg, factory |-> r.call, calls |-> <<r.ev>>]

_from_config(cfg, version, f) ==
    IF VERSIONED_FLAG_KEY \in DOMAIN cfg
    THEN [ok |-> FALSE, err |-> "ValueError", dataset |-> "none",
          config |-> cfg, factory |-> NoFactoryCall, calls |-> <<>>]
    ELSE IF Truthy(version)
    THEN LET marked == SetFlag(cfg)
             r == FromConfig("_cached", marked, version.load, version.save, f)
         IN  [ok |-> r.ok, err |-> IF r.ok THEN "" ELSE Raised(r.ev),
              dataset |-> IF r.ok THEN r.dataset ELSE "none",
              config |-> marked, factory |-> r.call, calls |-> <<r.ev>>]
    ELSE LET r == FromConfig("_cached", cfg, "None", "None", f)
         IN  [ok |-> r.ok, err |-> IF r.ok THEN "" ELSE Raised(r.ev),
              dataset |-> IF r.ok THEN r.dataset ELSE "none",
              config |-> cfg, factory |-> r.call, calls |-> <<r.ev>>]

\* __init__ that wraps whatever it is given when it is not a dict
__init__unchecked(src, cfg, version, copy_mode, metadata, f) ==
    LET self0 == [NoWrapper EXCEPT !.EPHEMERAL = TRUE]
    IN  IF src = "dict"
        THEN LET r == _from_config(cfg, version, f)
             IN  IF r.ok
                 THEN [ok |-> TRUE, err |-> "", config |-> r.config,
                       factory |-> r.factory,
                       calls |-> r.calls \o <<"MemoryDataset">>,
                       self |-> [self0 EXCEPT !.built = TRUE,
                                              !.dataset = r.dataset,
                                              !.cache = NewCache(copy_mode),
                                              !.metadata = metadata]]
                 ELSE [ok |-> FALSE, err |-> r.err, config |-> r.config,
                       factory |-> r.factory, calls |-> r.calls, self |-> self0]
        ELSE [ok |-> TRUE, err |-> "", config |-> cfg, factory |-> NoFactoryCall,
              calls |-> <<"MemoryDataset">>,
              self |-> [self0 EXCEPT !.built = TRUE,
                                     !.dataset = "live",
                                     !.cache = NewCache(copy_mode),
                                     !.metadata = metadata]]

\* CachedDataset.__init__
__init__(src, cfg, version, copy_mode, metadata, f) ==
    LET self0 == [NoWrapper EXCEPT !.EPHEMERAL = TRUE]
    IN  IF src = "dict"
        THEN LET r == _from_config(cfg, version, f)
             IN  IF r.ok
                 THEN [ok |-> TRUE, err |-> "", config |-> r.config,
                       factory |-> r.factory,
                       calls |-> r.calls \o <<"MemoryDataset">>,
                       self |-> [self0 EXCEPT !.built = TRUE,
                                              !.dataset = r.dataset,
                                              !.cache = NewCache(copy_mode),
                                              !.metadata = metadata]]
                 ELSE [ok |-> FALSE, err |-> r.err, config |-> r.config,
                       factory |-> r.factory, calls |-> r.calls, self |-> self0]
        ELSE IF src = "dataset"
        THEN [ok |-> TRUE, err |-> "", config |-> cfg, factory |-> NoFactoryCall,
              calls |-> <<"MemoryDataset">>,
              self |-> [self0 EXCEPT !.built = TRUE,
                                     !.dataset = "live",
                                     !.cache = NewCache(copy_mode),
                                     !.metadata = metadata]]
        ELSE [ok |-> FALSE, err |-> "ValueError", config |-> cfg,
              factory |-> NoFactoryCall, calls |-> <<>>, self |-> self0]

\* _load that returns the data without filling the cache
_load_nofill(self, s, f) ==
    LET hit == CacheExists(self.cache)
        rd == IF hit THEN CacheLoad(self.cache) ELSE DatasetLoad(s, f)
        calls1 == <<"cache.exists", rd.ev>>
    IN  IF ~rd.ok
        THEN [ok |-> FALSE, err |-> Raised(rd.ev), val |-> 0, self |-> self,
              calls |-> calls1]
        ELSE [ok |-> TRUE, err |-> "", val |-> rd.val, self |-> self,
              calls |-> calls1]

\* _load that answers with no data when the wrapped dataset's load raises
_load_swallow(self, s, f) ==
    LET hit == CacheExists(self.cache)
        rd == IF hit THEN CacheLoad(self.cache) ELSE DatasetLoad(s, f)
        calls1 == <<"cache.exists", rd.ev>>
        wr == CacheSave(self.cache, rd.val, f)
    IN  IF ~rd.ok
        THEN [ok |-> TRUE, err |-> "", val |-> 0, self |-> self,
              calls |-> calls1]
        ELSE IF CacheExists(self.cache)
        THEN [ok |-> TRUE, err |-> "", val |-> rd.val, self |-> self,
              calls |-> calls1 \o <<"cache.exists">>]
        ELSE IF wr.ok
        THEN [ok |-> TRUE, err |-> "", val |-> rd.val,
              self |-> [self EXCEPT !.cache = wr.cache],
              calls |-> calls1 \o <<"cache.exists", wr.ev>>]
        ELSE [ok |-> FALSE, err |-> Raised(wr.ev), val |-> 0, self |-> self,
              calls |-> calls1 \o <<"cache.exists", wr.ev>>]

\* _load that returns the data when the cache's save raises
_load_ignore_cache_error(self, s, f) ==
    LET hit == CacheExists(self.cache)
        rd == IF hit THEN CacheLoad(self.cache) ELSE DatasetLoad(s, f)
        calls1 == <<"cache.exists", rd.ev>>
        wr == CacheSave(self.cache, rd.val, f)
    IN  IF ~rd.ok
        THEN [ok |-> FALSE, err |-> Raised(rd.ev), val |-> 0, self |-> self,
              calls |-> calls1]
        ELSE IF CacheExists(self.cache)
        THEN [ok |-> TRUE, err |-> "", val |-> rd.val, self |-> self,
              calls |-> calls1 \o <<"cache.exists">>]
        ELSE [ok |-> TRUE, err |-> "", val |-> rd.val,
              self |-> [self EXCEPT !.cache = wr.cache],
              calls |-> calls1 \o <<"cache.exists", wr.ev>>]

_load(self, s, f) ==
    LET hit == CacheExists(self.cache)
        rd == IF hit THEN CacheLoad(self.cache) ELSE DatasetLoad(s, f)
        calls1 == <<"cache.exists", rd.ev>>
        wr == CacheSave(self.cache, rd.val, f)
    IN  IF ~rd.ok
        THEN [ok |-> FALSE, err |-> Raised(rd.ev), val |-> 0, self |-> self,
              calls |-> calls1]
        ELSE IF CacheExists(self.cache)
        THEN [ok |-> TRUE, err |-> "", val |-> rd.val, self |-> self,
              calls |-> calls1 \o <<"cache.exists">>]
        ELSE IF wr.ok
        THEN [ok |-> TRUE, err |-> "", val |-> rd.val,
              self |-> [self EXCEPT !.cache = wr.cache],
              calls |-> calls1 \o <<"cache.exists", wr.ev>>]
        ELSE [ok |-> FALSE, err |-> Raised(wr.ev), val |-> 0, self |-> self,
              calls |-> calls1 \o <<"cache.exists", wr.ev>>]

\* _save that writes the wrapped dataset and forgets the cache
_save_nomirror(self, s, data, f) ==
    LET ds == DatasetSave(s, data, f)
    IN  [ok |-> ds.ok, err |-> IF ds.ok THEN "" ELSE Raised(ds.ev),
         self |-> self, store |-> ds.store, calls |-> <<ds.ev>>]

\* _save that writes the cache first and the wrapped dataset second
_save_cachefirst(self, s, data, f) ==
    LET wr == CacheSave(self.cache, data, f)
        ds == DatasetSave(s, data, f)
    IN  IF ~wr.ok
        THEN [ok |-> FALSE, err |-> Raised(wr.ev), self |-> self,
              store |-> s, calls |-> <<wr.ev>>]
        ELSE [ok |-> ds.ok, err |-> IF ds.ok THEN "" ELSE Raised(ds.ev),
              self |-> [self EXCEPT !.cache = wr.cache],
              store |-> ds.store, calls |-> <<wr.ev, ds.ev>>]

_save(self, s, data, f) ==
    LET ds == DatasetSave(s, data, f)
        wr == CacheSave(self.cache, data, f)
    IN  IF ~ds.ok
        THEN [ok |-> FALSE, err |-> Raised(ds.ev), self |-> self,
              store |-> ds.store, calls |-> <<ds.ev>>]
        ELSE IF wr.ok
        THEN [ok |-> TRUE, err |-> "", self |-> [self EXCEPT !.cache = wr.cache],
              store |-> ds.store, calls |-> <<ds.ev, wr.ev>>]
        ELSE [ok |-> FALSE, err |-> Raised(wr.ev), self |-> self,
              store |-> ds.store, calls |-> <<ds.ev, wr.ev>>]

\* _exists that asks the wrapped dataset alone
_exists_dataset_only(self, s, f) ==
    LET de == DatasetExists(s, f)
    IN  IF de.ok
        THEN [ok |-> TRUE, err |-> "", ret |-> de.ret, self |-> self,
              calls |-> <<de.ev>>]
        ELSE [ok |-> FALSE, err |-> Raised(de.ev), ret |-> FALSE, self |-> self,
              calls |-> <<de.ev>>]

\* _exists that, finding data in the wrapped dataset only, loads it into
\* the cache
_exists_warming(self, s, f) ==
    LET de == DatasetExists(s, f)
        rd == DatasetLoad(s, f)
        wr == CacheSave(self.cache, rd.val, f)
    IN  IF CacheExists(self.cache)
        THEN [ok |-> TRUE, err |-> "", ret |-> TRUE, self |-> self,
              calls |-> <<"cache.exists">>]
        ELSE IF ~de.ok
        THEN [ok |-> FALSE, err |-> Raised(de.ev), ret |-> FALSE, self |-> self,
              calls |-> <<"cache.exists", de.ev>>]
        ELSE IF de.ret /\ rd.ok /\ wr.ok
        THEN [ok |-> TRUE, err |-> "", ret |-> TRUE,
              self |-> [self EXCEPT !.cache = wr.cache],
              calls |-> <<"cache.exists", de.ev, rd.ev, wr.ev>>]
        ELSE [ok |-> TRUE, err |-> "", ret |-> de.ret, self |-> self,
              calls |-> <<"cache.exists", de.ev>>]

_exists(self, s, f) ==
    LET de == DatasetExists(s, f)
    IN  IF CacheExists(self.cache)
        THEN [ok |-> TRUE, err |-> "", ret |-> TRUE, self |-> self,
              calls |-> <<"cache.exists">>]
        ELSE IF de.ok
        THEN [ok |-> TRUE, err |-> "", ret |-> de.ret, self |-> self,
              calls |-> <<"cache.exists", de.ev>>]
        ELSE [ok |-> FALSE, err |-> Raised(de.ev), ret |-> FALSE, self |-> self,
              calls |-> <<"cache.exists", de.ev>>]

\* _release that releases the wrapped dataset and forgets the cache
_release_dataset_only(self, f) ==
    LET dr == DatasetRelease(f)
    IN  [ok |-> dr.ok, err |-> IF dr.ok THEN "" ELSE Raised(dr.ev),
         self |-> self, calls |-> <<dr.ev>>]

_release(self, f) ==
    LET dr == DatasetRelease(f)
    IN  [ok |-> dr.ok, err |-> IF dr.ok THEN "" ELSE Raised(dr.ev),
         self |-> [self EXCEPT !.cache = CacheRelease(self.cache)],
         calls |-> <<"cache.release", dr.ev>>]

\* __getstate__ that returns self.__dict__ with the cache as it is
__getstate__keep(self) ==
    [ok |-> TRUE, err |-> "", self |-> self, state |-> self,
     calls |-> <<"logging.warning">>]

\* __getstate__ that clears the cache through release(), wrapped dataset
\* included
__getstate__via_release(self) ==
    LET r == _release(self, {})
    IN  [ok |-> TRUE, err |-> "", self |-> r.self, state |-> r.self,
         calls |-> <<"logging.warning">> \o r.calls]

\* __getstate__ that takes the state first and clears the cache after
__getstate__capture_first(self) ==
    [ok |-> TRUE, err |-> "",
     self |-> [self EXCEPT !.cache = CacheRelease(self.cache)],
     state |-> self,
     calls |-> <<"logging.warning", "cache.release">>]

\* returns self.__dict__ after releasing the cache
__getstate__(self) ==
    LET cleared == [self EXCEPT !.cache = CacheRelease(self.cache)]
    IN  [ok |-> TRUE, err |-> "", self |-> cleared, state |-> cleared,
         calls |-> <<"logging.warning", "cache.release">>]

(***************************************************************************)
(* The record of a call: which method of which wrapper, with what          *)
(* argument, what it returned (val, ret, state) or raised (err), the calls *)
(* it made in order, and the data the cache held when it began (pre).      *)
(* tick alternates from one call to the next, so that a call always        *)
(* changes the record.                                                     *)
(***************************************************************************)
NoCall ==
    [tick |-> 0, op |-> "none", w |-> 0, ok |-> TRUE, err |-> "", arg |-> 0, val |-> 0,
     ret |-> FALSE, calls |-> <<>>, pre |-> EMPTY, src |-> "none",
     version |-> NoVersion, factory |-> NoFactoryCall, state |-> NoWrapper]

Call(op, w, r) ==
    [NoCall EXCEPT !.tick = 1 - last.tick, !.op = op, !.w = w, !.ok = r.ok, !.err = r.err,
                   !.calls = r.calls, !.pre = wrapper[w].cache.data]

(***************************************************************************)
(* A call in progress in a thread: the method (job) and its argument, the  *)
(* call on `_cache` or `_dataset` it makes next (pc), the locals of _load  *)
(* (hit: what self._cache.exists() answered at line 107; data), what it    *)
(* raised (err) and the calls it has made.                                 *)
(***************************************************************************)
NoJob ==
    [job |-> "none", arg |-> 0, pc |-> "done", hit |-> FALSE, data |-> 0,
     err |-> "", calls |-> <<>>]

\* thread about to run load()
LoadJob == [NoJob EXCEPT !.job = "load", !.pc = "check"]

\* thread about to run save(data)
SaveJob(data) == [NoJob EXCEPT !.job = "save", !.arg = data, !.pc = "write"]

(***************************************************************************)
(* Initial state and actions.                                              *)
(***************************************************************************)
Init ==
    /\ config \in Configs
    /\ store \in {NoData} \cup Values
    /\ wrapper = [w \in Wrappers |-> NoWrapper]
    /\ last = NoCall
    /\ thread = [t \in Threads |-> NoJob]

\* w = CachedDataset(dataset=..., version=..., copy_mode=..., metadata=...)
Construct(w, src, version, copy_mode, metadata, f) ==
    /\ ~wrapper[w].built
    /\ LET r == __init__(src, config, version, copy_mode, metadata, f)
       IN  /\ config' = r.config
           /\ wrapper' = IF r.ok THEN [wrapper EXCEPT ![w] = r.self] ELSE wrapper
           /\ last' = [NoCall EXCEPT !.tick = 1 - last.tick, !.op = "construct",
                                     !.w = w, !.ok = r.ok,
                                     !.err = r.err, !.calls = r.calls,
                                     !.src = src,
                                     !.version = version,
                                     !.factory = r.factory]
    /\ UNCHANGED <<store, thread>>

Load(w, f) ==
    /\ wrapper[w].built
    /\ LET r == _load(wrapper[w], store, f)
       IN  /\ wrapper' = [wrapper EXCEPT ![w] = r.self]
           /\ last' = [Call("load", w, r) EXCEPT !.val = r.val]
    /\ UNCHANGED <<config, store, thread>>

\* Save with one cache for all wrappers: the data is mirrored into each
Save_shared_cache(w, data, f) ==
    /\ wrapper[w].built
    /\ LET r == _save(wrapper[w], store, data, f)
       IN  /\ wrapper' = [u \in Wrappers |->
                            IF wrapper[u].built
                            THEN [wrapper[u] EXCEPT !.cache = r.self.cache]
                            ELSE wrapper[u]]
           /\ store' = r.store
           /\ last' = [Call("save", w, r) EXCEPT !.arg = data]
    /\ UNCHANGED <<config, thread>>

Save(w, data, f) ==
    /\ wrapper[w].built
    /\ LET r == _save(wrapper[w], store, data, f)
       IN  /\ wrapper' = [wrapper EXCEPT ![w] = r.self]
           /\ store' = r.store
           /\ last' = [Call("save", w, r) EXCEPT !.arg = data]
    /\ UNCHANGED <<config, thread>>

Exists(w, f) ==
    /\ wrapper[w].built
    /\ LET r == _exists(wrapper[w], store, f)
       IN  /\ wrapper' = [wrapper EXCEPT ![w] = r.self]
           /\ last' = [Call("exists", w, r) EXCEPT !.ret = r.ret]
    /\ UNCHANGED <<config, store, thread>>

Release(w, f) ==
    /\ wrapper[w].built
    /\ LET r == _release(wrapper[w], f)
       IN  /\ wrapper' = [wrapper EXCEPT ![w] = r.self]
           /\ last' = Call("release", w, r)
    /\ UNCHANGED <<config, store, thread>>

\* pickling w: __getstate__ runs and its result is what travels
GetState(w) ==
    /\ wrapper[w].built
    /\ LET r == __getstate__(wrapper[w])
       IN  /\ wrapper' = [wrapper EXCEPT ![w] = r.self]
           /\ last' = [Call("getstate", w, r) EXCEPT !.state = r.state]
    /\ UNCHANGED <<config, store, thread>>

\* unpickling: a new object whose __dict__ is the state just captured
SetState(w) ==
    /\ ~wrapper[w].built
    /\ last.op = "getstate"
    /\ wrapper' = [wrapper EXCEPT ![w] = last.state]
    /\ last' = [NoCall EXCEPT !.tick = 1 - last.tick, !.op = "setstate", !.w = w,
                         !.state = last.state]
    /\ UNCHANGED <<config, store, thread>>

\* the persisted data is changed, or removed, by something other than a wrapper
ExternalWrite(v) ==
    /\ v # store
    /\ store' = v
    /\ UNCHANGED <<config, wrapper, last, thread>>

Next ==
    \/ \E w \in Wrappers, src \in Sources, version \in Versions, o \in Options,
          f \in SUBSET {"from_config"} :
            Construct(w, src, version, o.copy_mode, o.metadata, f)
    \/ \E w \in Wrappers, f \in SUBSET {"dataset.load", "cache.save"} : Load(w, f)
    \/ \E w \in Wrappers, data \in Values,
          f \in SUBSET {"dataset.save", "cache.save"} : Save(w, data, f)
    \/ \E w \in Wrappers, f \in SUBSET {"dataset.exists"} : Exists(w, f)
    \/ \E w \in Wrappers, f \in SUBSET {"dataset.release"} : Release(w, f)
    \/ \E w \in Wrappers : GetState(w)
    \/ \E w \in Wrappers : SetState(w)

\* the wrappers, and the persisted data changing behind them
NextExternal ==
    \/ Next
    \/ \E v \in {NoData} \cup Values : ExternalWrite(v)

Spec == Init /\ [][NextExternal]_vars

\* the wrappers alone: nothing else touches the persisted data
SpecOwned == Init /\ [][Next]_vars

(***************************************************************************)
(* Threads on one wrapper.  _load and _save hold no lock, so the calls     *)
(* they make on `_cache` and `_dataset` interleave with those of other     *)
(* threads: each such call is one step.  The threads start together, on a  *)
(* wrapper just built, whose cache holds no data.  No call is made to      *)
(* raise here; the wrapped dataset's load raises when nothing is           *)
(* persisted.                                                              *)
(***************************************************************************)
\* the wrapper the threads share
Shared == CHOOSE w \in Wrappers : wrapper[w].built

InitConc ==
    /\ config = [type |-> "T"]
    /\ store \in {NoData} \cup Values
    /\ \E w \in Wrappers, o \in Options :
          wrapper = [u \in Wrappers |->
                       IF u = w
                       THEN __init__("dataset", config, NoVersion, o.copy_mode,
                                     o.metadata, {}).self
                       ELSE NoWrapper]
    /\ last = NoCall
    /\ thread \in [Threads -> {NoJob, LoadJob} \cup {SaveJob(v) : v \in Values}]

\* line 107, the condition: self._cache.exists()
LoadCheck(t) ==
    /\ thread[t].job = "load" /\ thread[t].pc = "check"
    /\ thread' = [thread EXCEPT ![t].hit = CacheExists(wrapper[Shared].cache),
                                ![t].pc = "read",
                                ![t].calls = @ \o <<"cache.exists">>]
    /\ UNCHANGED <<config, store, wrapper, last>>

\* line 107, the branch taken: self._cache.load() or self._dataset.load()
LoadRead(t) ==
    /\ thread[t].job = "load" /\ thread[t].pc = "read"
    /\ LET rd == IF thread[t].hit
                 THEN CacheLoad(wrapper[Shared].cache)
                 ELSE DatasetLoad(store, {})
       IN  thread' = [thread EXCEPT ![t].data = rd.val,
                                    ![t].pc = IF rd.ok THEN "recheck" ELSE "raised",
                                    ![t].err = IF rd.ok THEN "" ELSE Raised(rd.ev),
                                    ![t].calls = @ \o <<rd.ev>>]
    /\ UNCHANGED <<config, store, wrapper, last>>

\* line 109: if not self._cache.exists(); line 112 when it does
LoadRecheck(t) ==
    /\ thread[t].job = "load" /\ thread[t].pc = "recheck"
    /\ thread' = [thread EXCEPT ![t].pc = IF CacheExists(wrapper[Shared].cache)
                                          THEN "done" ELSE "fill",
                                ![t].calls = @ \o <<"cache.exists">>]
    /\ UNCHANGED <<config, store, wrapper, last>>

\* LoadFill that leaves the cache as it is
LoadFill_skip(t) ==
    /\ thread[t].job = "load" /\ thread[t].pc = "fill"
    /\ thread' = [thread EXCEPT ![t].pc = "done"]
    /\ UNCHANGED <<config, store, wrapper, last>>

\* lines 110-112: self._cache.save(data); return data
LoadFill(t) ==
    /\ thread[t].job = "load" /\ thread[t].pc = "fill"
    /\ LET wr == CacheSave(wrapper[Shared].cache, thread[t].data, {})
       IN  /\ wrapper' = [wrapper EXCEPT ![Shared].cache = wr.cache]
           /\ thread' = [thread EXCEPT ![t].pc = "done",
                                       ![t].calls = @ \o <<wr.ev>>]
    /\ UNCHANGED <<config, store, last>>

\* line 115: self._dataset.save(data)
SaveWrite(t) ==
    /\ thread[t].job = "save" /\ thread[t].pc = "write"
    /\ LET wr == DatasetSave(store, thread[t].arg, {})
       IN  /\ store' = wr.store
           /\ thread' = [thread EXCEPT ![t].pc = "mirror",
                                       ![t].calls = @ \o <<wr.ev>>]
    /\ UNCHANGED <<config, wrapper, last>>

\* SaveMirror that leaves the cache as it is
SaveMirror_skip(t) ==
    /\ thread[t].job = "save" /\ thread[t].pc = "mirror"
    /\ thread' = [thread EXCEPT ![t].pc = "done"]
    /\ UNCHANGED <<config, store, wrapper, last>>

\* line 116: self._cache.save(data)
SaveMirror(t) ==
    /\ thread[t].job = "save" /\ thread[t].pc = "mirror"
    /\ LET wr == CacheSave(wrapper[Shared].cache, thread[t].arg, {})
       IN  /\ wrapper' = [wrapper EXCEPT ![Shared].cache = wr.cache]
           /\ thread' = [thread EXCEPT ![t].pc = "done",
                                       ![t].calls = @ \o <<wr.ev>>]
    /\ UNCHANGED <<config, store, last>>

NextConc ==
    \/ \E t \in Threads : LoadCheck(t)
    \/ \E t \in Threads : LoadRead(t)
    \/ \E t \in Threads : LoadRecheck(t)
    \/ \E t \in Threads : LoadFill(t)
    \/ \E t \in Threads : SaveWrite(t)
    \/ \E t \in Threads : SaveMirror(t)

SpecConc == InitConc /\ [][NextConc]_vars

(***************************************************************************)
(* Reading the record of calls.                                            *)
(***************************************************************************)
\* how many entries of the log of calls are among the names in `which`
Count(which, calls) == Cardinality({i \in DOMAIN calls : calls[i] \in which})

\* calls of the wrapped dataset's load, returned or raised
DatasetLoads(calls) == Count({"dataset.load", "dataset.load!"}, calls)

\* the step is a call on a wrapper
Called == last'.tick # last.tick

\* the step is a call of method op
Calls(op) == Called /\ last'.op = op

\* the step is a call of method op on the wrapper the call before it was on
Next_(op) == Calls(op) /\ last'.w = last.w

\* the call of the step is a load that finds the cache empty and goes to
\* the wrapped dataset: if it returns, it returns what the dataset holds
\* and leaves that in the cache
FirstLoad ==
    /\ last'.pre = EMPTY
    /\ Len(last'.calls) >= 2
    /\ last'.calls[1] = "cache.exists"
    /\ last'.calls[2] \in {"dataset.load", "dataset.load!"}
    /\ DatasetLoads(last'.calls) = 1
    /\ last'.ok => /\ store # NoData
                   /\ last'.val = store
                   /\ wrapper'[last'.w].cache.data = store

(***************************************************************************)
(* C1.  Cache-fill idempotence.  A load that finds the cache empty and     *)
(* returns has called the wrapped dataset's load exactly once and returns  *)
(* the value v the dataset holds; the load that follows it on the same     *)
(* wrapper returns v again, without calling the wrapped dataset's load: it *)
(* is served by the cache (exists, load, exists on the cache and nothing   *)
(* else), whatever the dataset holds by then.                              *)
(***************************************************************************)
C1_Step ==
    /\ (Calls("load") /\ last'.ok /\ last'.pre = EMPTY)
          => /\ last'.val = store
             /\ DatasetLoads(last'.calls) = 1
    /\ (last.op = "load" /\ last.ok /\ last.pre = EMPTY /\ Next_("load"))
          => /\ last'.ok
             /\ last'.val = last.val
             /\ DatasetLoads(last'.calls) = 0
             /\ last'.calls = <<"cache.exists", "cache.load", "cache.exists">>

C1_CacheFillIdempotence == [][C1_Step]_vars

\* a load served by the cache alone, returning the cached value although
\* the wrapped dataset holds another one by now
C1_Witness ==
    /\ last.op = "load" /\ last.ok
    /\ last.pre \in Values /\ last.val = last.pre
    /\ DatasetLoads(last.calls) = 0
    /\ store # last.val

(***************************************************************************)
(* C2.  Write-then-read consistency.  After a save(v) that returned, the   *)
(* cache holds v, and the load that follows it on the same wrapper returns *)
(* v without calling the wrapped dataset's load, whatever the cache held   *)
(* before the save and whatever the dataset holds by then.                 *)
(***************************************************************************)
C2_Step ==
    /\ (Calls("save") /\ last'.ok)
          => wrapper'[last'.w].cache.data = last'.arg
    /\ (last.op = "save" /\ last.ok /\ Next_("load"))
          => /\ last'.ok
             /\ last'.val = last.arg
             /\ DatasetLoads(last'.calls) = 0

C2_WriteThenRead == [][C2_Step]_vars

\* a save that returned and replaced another value in the cache; the
\* load that follows finds the dataset changed behind the wrapper
C2_Witness ==
    /\ last.op = "save" /\ last.ok
    /\ last.pre \in Values /\ last.pre # last.arg
    /\ wrapper[last.w].cache.data = last.arg
    /\ store # last.arg

(***************************************************************************)
(* C3.  The cache never diverges from the wrapped dataset.  With a single  *)
(* wrapper and nothing else writing the persisted data, whichever calls    *)
(* raise: if the cache holds data, it is the data the dataset holds.       *)
(*                                                                         *)
(* _save does not keep it: when the cache's save raises after the          *)
(* dataset's save returned, the cache keeps the data it held.              *)
(***************************************************************************)
C3_CacheMatchesDataset ==
    \A w \in Wrappers :
        ( /\ wrapper[w].built
          /\ \A u \in Wrappers \ {w} : ~wrapper[u].built
          /\ CacheExists(wrapper[w].cache) )
            => wrapper[w].cache.data = store

(***************************************************************************)
(* C4.  Write durability ordering.  save calls the wrapped dataset's save  *)
(* first and the cache's save only after it returned; when the dataset's   *)
(* save raises, the call raises that error, the cache's save is not called *)
(* and the cache holds what it held before the call.                       *)
(***************************************************************************)
C4_WriteDurabilityOrdering ==
    last.op = "save" =>
        /\ Len(last.calls) >= 1
        /\ last.calls[1] \in {"dataset.save", "dataset.save!"}
        /\ \A i \in DOMAIN last.calls :
              last.calls[i] \in {"cache.save", "cache.save!"}
                  => i = 2 /\ last.calls[1] = "dataset.save"
        /\ "dataset.save!" \in {last.calls[i] : i \in DOMAIN last.calls}
              => /\ ~last.ok
                 /\ last.err = "dataset.save"
                 /\ Count({"cache.save", "cache.save!"}, last.calls) = 0
                 /\ wrapper[last.w].cache.data = last.pre

\* the dataset's save raised while the cache held another value, which
\* it still holds
C4_Witness ==
    /\ last.op = "save" /\ last.calls = <<"dataset.save!">>
    /\ last.pre \in Values /\ last.pre # last.arg
    /\ wrapper[last.w].cache.data = last.pre

(***************************************************************************)
(* C5.  Boundary-transfer safety.  __getstate__, from any state of the     *)
(* wrapper, leaves the cache without data, in the wrapper and in the state *)
(* it returns, and leaves the persisted data as it was; the load that      *)
(* follows it, on the wrapper or on the object rebuilt from that state,    *)
(* finds the cache empty and calls the wrapped dataset's load, returning   *)
(* what the dataset holds, as the first load of a new wrapper does.        *)
(***************************************************************************)
C5_Step ==
    /\ Calls("getstate")
          => /\ ~CacheExists(wrapper'[last'.w].cache)
             /\ ~CacheExists(last'.state.cache)
             /\ store' = store
    /\ Calls("setstate")
          => /\ wrapper'[last'.w] = last.state
             /\ store' = store
    /\ (last.op \in {"getstate", "setstate"} /\ Next_("load")) => FirstLoad
    /\ (last.op = "construct" /\ last.ok /\ Next_("load")) => FirstLoad

C5_BoundaryTransferSafety == [][C5_Step]_vars

\* __getstate__ ran on a wrapper whose cache held the data of the dataset:
\* the cache is empty, the dataset still holds the data
C5_Witness ==
    /\ last.op = "getstate"
    /\ last.pre \in Values
    /\ ~CacheExists(wrapper[last.w].cache)
    /\ ~CacheExists(last.state.cache)
    /\ store = last.pre

(***************************************************************************)
(* C6.  No duplicate versioning.  Constructing a wrapper from a dictionary *)
(* that holds the versioned flag, true or false, with or without a         *)
(* version, raises ValueError before the factory is called: the factory is *)
(* not called, no MemoryDataset is made, no wrapper comes to exist and the *)
(* dictionary is left as it was.                                           *)
(***************************************************************************)
C6_Step ==
    (Calls("construct") /\ last'.src = "dict"
                        /\ VERSIONED_FLAG_KEY \in DOMAIN config)
        => /\ ~last'.ok
           /\ last'.err = "ValueError"
           /\ ~last'.factory.called
           /\ last'.calls = <<>>
           /\ wrapper' = wrapper
           /\ config' = config

C6_NoDuplicateVersioning == [][C6_Step]_vars

\* construction from a dictionary holding `versioned: false`, with no
\* version given, was refused
C6_Witness ==
    /\ last.op = "construct" /\ last.src = "dict"
    /\ ~last.version.given
    /\ VERSIONED_FLAG_KEY \in DOMAIN config /\ ~config[VERSIONED_FLAG_KEY]
    /\ last.err = "ValueError"
    /\ ~last.factory.called
    /\ ~wrapper[last.w].built

(***************************************************************************)
(* C7.  Existence disjunction.  An exists call that returns, returns true  *)
(* exactly when the cache holds data or the wrapped dataset holds data:    *)
(* true with the cache alone, with the dataset alone and with both, false  *)
(* with neither.                                                           *)
(***************************************************************************)
C7_Step ==
    (Calls("exists") /\ last'.ok)
        => last'.ret = (CacheExists(wrapper[last'.w].cache) \/ store # NoData)

C7_ExistenceDisjunction == [][C7_Step]_vars

\* exists answered true from the cache, with nothing persisted
C7_Witness ==
    /\ last.op = "exists" /\ last.ok /\ last.ret
    /\ last.pre \in Values
    /\ last.calls = <<"cache.exists">>
    /\ store = NoData

(***************************************************************************)
(* C8.  release clears the cache unconditionally.  From any state, release *)
(* asks the cache and then the wrapped dataset to release, leaves the      *)
(* cache without data even when the dataset's release raises, and leaves   *)
(* the persisted data as it was; the load that follows calls the wrapped   *)
(* dataset's load and returns what the dataset holds, whereas a load on a  *)
(* cache that holds data returns the cached data whatever the dataset      *)
(* holds.                                                                  *)
(***************************************************************************)
C8_Step ==
    /\ Calls("release")
          => /\ ~CacheExists(wrapper'[last'.w].cache)
             /\ Len(last'.calls) = 2
             /\ last'.calls[1] = "cache.release"
             /\ last'.calls[2] \in {"dataset.release", "dataset.release!"}
             /\ store' = store
    /\ (last.op = "release" /\ Next_("load")) => FirstLoad
    /\ (Calls("load") /\ last'.pre # EMPTY)
          => /\ last'.ok
             /\ last'.val = last'.pre
             /\ DatasetLoads(last'.calls) = 0

C8_ReleaseClearsCache == [][C8_Step]_vars

\* release dropped cached data that the wrapped dataset no longer holds
C8_Witness ==
    /\ last.op = "release"
    /\ last.pre \in Values
    /\ ~CacheExists(wrapper[last.w].cache)
    /\ store \in Values /\ store # last.pre

(***************************************************************************)
(* C9.  A failed read leaves no partial fill.  When a load finds the cache *)
(* empty and the wrapped dataset's load raises, the call raises that       *)
(* error, nothing is saved into the cache, which stays empty, and the load *)
(* that follows calls the wrapped dataset's load again.                    *)
(***************************************************************************)
C9_Step ==
    /\ (Calls("load") /\ Count({"dataset.load!"}, last'.calls) > 0)
          => /\ last'.pre = EMPTY
             /\ ~last'.ok
             /\ last'.err = "dataset.load"
             /\ Count({"cache.save", "cache.save!"}, last'.calls) = 0
             /\ ~CacheExists(wrapper'[last'.w].cache)
    /\ (last.op = "load" /\ Count({"dataset.load!"}, last.calls) > 0
                         /\ Next_("load"))
          => /\ Len(last'.calls) >= 2
             /\ last'.calls[2] \in {"dataset.load", "dataset.load!"}

C9_FailedReadNoPartialFill == [][C9_Step]_vars

\* the wrapped dataset holds data, its load raised, the cache is empty
C9_Witness ==
    /\ last.op = "load" /\ ~last.ok
    /\ last.calls = <<"cache.exists", "dataset.load!">>
    /\ store \in Values
    /\ ~CacheExists(wrapper[last.w].cache)

(***************************************************************************)
(* C10.  Construction has no side effect beyond the new wrapper.  It makes *)
(* no load, save or exists call on the wrapped dataset and leaves the      *)
(* dictionary it was given as it was, so that a second construction from   *)
(* the same dictionary and version ends as the first did (the factory      *)
(* raising in neither).                                                    *)
(*                                                                         *)
(* _from_config does not keep it: given a version, it sets the versioned   *)
(* flag in the caller's dictionary, and the next construction from that    *)
(* dictionary raises ValueError.                                           *)
(***************************************************************************)
C10_Step ==
    /\ Calls("construct")
          => /\ config' = config
             /\ store' = store
             /\ Count({"dataset.load", "dataset.load!", "dataset.save",
                       "dataset.save!", "dataset.exists", "dataset.exists!"},
                      last'.calls) = 0
    /\ (last.op = "construct" /\ Calls("construct")
            /\ last'.src = last.src /\ last'.version = last.version
            /\ last.err # "from_config" /\ last'.err # "from_config")
          => /\ last'.ok = last.ok
             /\ last'.err = last.err

C10_ConstructionNoSideEffect == [][C10_Step]_vars

(***************************************************************************)
(* C11.  Factory hand-off.  Constructing a wrapper from a dictionary       *)
(* without the versioned flag calls the factory exactly once, under the    *)
(* name "_cached".  Given a version, even one with neither half set, the   *)
(* factory receives the dictionary with the flag set to true and the       *)
(* version's load and save identifiers; given no version, it receives the  *)
(* dictionary without the flag and no version identifiers.                 *)
(***************************************************************************)
C11_Step ==
    (Calls("construct") /\ last'.src = "dict"
                        /\ VERSIONED_FLAG_KEY \notin DOMAIN config)
        => /\ last'.factory.called
           /\ Count({"from_config", "from_config!"}, last'.calls) = 1
           /\ last'.factory.name = "_cached"
           /\ last'.version.given
                 => /\ last'.factory.config = SetFlag(config)
                    /\ last'.factory.config[VERSIONED_FLAG_KEY]
                    /\ last'.factory.load_version = last'.version.load
                    /\ last'.factory.save_version = last'.version.save
           /\ ~last'.version.given
                 => /\ last'.factory.config = config
                    /\ VERSIONED_FLAG_KEY \notin DOMAIN last'.factory.config
                    /\ last'.factory.load_version = "None"
                    /\ last'.factory.save_version = "None"

C11_FactoryHandOff == [][C11_Step]_vars

\* a Version with neither half set was given: the factory got the flag
C11_Witness ==
    /\ last.op = "construct" /\ last.src = "dict" /\ last.ok
    /\ last.version = [given |-> TRUE, load |-> "None", save |-> "None"]
    /\ last.factory.called
    /\ VERSIONED_FLAG_KEY \in DOMAIN last.factory.config
    /\ last.factory.config[VERSIONED_FLAG_KEY]
    /\ wrapper[last.w].dataset = "made"

(***************************************************************************)
(* C12.  Constructing a wrapper from something that is neither a dataset   *)
(* nor a dictionary raises ValueError, and construction stops there: the   *)
(* factory is not called, no MemoryDataset is made and no wrapper comes to *)
(* exist.                                                                  *)
(***************************************************************************)
C12_Step ==
    (Calls("construct") /\ last'.src = "other")
        => /\ ~last'.ok
           /\ last'.err = "ValueError"
           /\ ~last'.factory.called
           /\ last'.calls = <<>>
           /\ wrapper' = wrapper

C12_InvalidSourceRefused == [][C12_Step]_vars

\* such a construction was refused and left no wrapper
C12_Witness ==
    /\ last.op = "construct" /\ last.src = "other"
    /\ last.err = "ValueError"
    /\ last.calls = <<>>
    /\ ~wrapper[last.w].built

(***************************************************************************)
(* Reading the threads.                                                    *)
(***************************************************************************)
\* the threads with a call to make
Callers == {t \in Threads : thread[t].job # "none"}

\* every call has returned
AllReturned == \A t \in Callers : thread[t].pc = "done"

RECURSIVE SumLoads(_)
\* calls of the wrapped dataset's load made by the threads of T
SumLoads(T) ==
    IF T = {} THEN 0
    ELSE LET t == CHOOSE x \in T : TRUE
         IN  DatasetLoads(thread[t].calls) + SumLoads(T \ {t})

(***************************************************************************)
(* C13.  Concurrent loads converge.  N >= 1 threads call load on a wrapper *)
(* whose cache is empty, the wrapped dataset holds v, no thread saves.     *)
(* However their calls on the cache and the dataset interleave: no load    *)
(* raises, a load that has returned has returned v, between 1 and N calls  *)
(* of the wrapped dataset's load have been made once a load has returned,  *)
(* never more than N, and when all have returned the cache holds v.        *)
(***************************************************************************)
C13_ConcurrentLoadsConverge ==
    (/\ Callers # {}
     /\ \A t \in Callers : thread[t].job = "load"
     /\ store \in Values)
        => /\ \A t \in Callers :
                /\ thread[t].pc # "raised"
                /\ thread[t].pc = "done"
                      => /\ thread[t].data = store
                         /\ wrapper[Shared].cache.data = store
           /\ SumLoads(Callers) <= Cardinality(Callers)
           /\ (\E t \in Callers : thread[t].pc = "done") => SumLoads(Callers) >= 1
           /\ AllReturned => wrapper[Shared].cache.data = store

\* every thread loaded, every one of them from the wrapped dataset: all
\* missed the cache before any filled it
C13_Witness ==
    /\ Cardinality(Callers) = MaxThreads
    /\ \A t \in Callers : thread[t].job = "load" /\ thread[t].pc = "done"
    /\ store \in Values
    /\ SumLoads(Callers) = MaxThreads
    /\ wrapper[Shared].cache.data = store

(***************************************************************************)
(* C14.  A load racing with a save.  As claimed: one thread calls load,    *)
(* starting on an empty cache over a wrapped dataset holding v1, another   *)
(* calls save(v2); when both have returned, the cache holds v2, which the  *)
(* wrapped dataset holds.                                                  *)
(*                                                                         *)
(* The load can read v1, find the cache still empty at line 109, and fill  *)
(* it with v1 after the save has written v2 to both.                       *)
(***************************************************************************)
C14_NoStaleCacheAfterRace ==
    (/\ Cardinality(Callers) = 2
     /\ \E t, u \in Callers : thread[t].job = "load" /\ thread[u].job = "save"
     /\ AllReturned)
        => \A u \in Callers :
              thread[u].job = "save"
                 => /\ store = thread[u].arg
                    /\ wrapper[Shared].cache.data = thread[u].arg

(***************************************************************************)
(* C15.  Concurrent saves.  Two threads call save, with different data v1  *)
(* and v2, on one wrapper, and no other thread calls.  When both have      *)
(* returned the cache holds v1 or v2, and so does the wrapped dataset;     *)
(* they need not hold the same (C15_Witness).                              *)
(***************************************************************************)
C15_ConcurrentSavesLastWriteWins ==
    (/\ Cardinality(Callers) = 2
     /\ \A t \in Callers : thread[t].job = "save"
     /\ \E t, u \in Callers : thread[t].arg # thread[u].arg
     /\ AllReturned)
        => /\ wrapper[Shared].cache.data \in {thread[t].arg : t \in Callers}
           /\ store \in {thread[t].arg : t \in Callers}

\* both saves have returned; the cache holds the data of one, the wrapped
\* dataset the data of the other
C15_Witness ==
    /\ Cardinality(Callers) = 2
    /\ \A t \in Callers : thread[t].job = "save" /\ thread[t].pc = "done"
    /\ wrapper[Shared].cache.data \in {thread[t].arg : t \in Callers}
    /\ store \in {thread[t].arg : t \in Callers}
    /\ wrapper[Shared].cache.data # store

(***************************************************************************)
(* C16.  The pre-transfer hook and release.  As claimed: __getstate__      *)
(* issues the release requests that release() issues, to the cache and to  *)
(* the wrapped dataset, and leaves the wrapper as release() does.          *)
(*                                                                         *)
(* __getstate__ asks the cache alone to release.                           *)
(***************************************************************************)
IsReleaseRequest(e) ==
    e \in {"cache.release", "dataset.release", "dataset.release!"}

\* the release requests among the calls made, in order
ReleaseRequests(calls) == SelectSeq(calls, IsReleaseRequest)

C16_SameRequestsAsRelease ==
    last.op = "getstate" =>
        /\ ReleaseRequests(last.calls)
              = ReleaseRequests(_release(wrapper[last.w], {}).calls)
        /\ wrapper[last.w] = _release(wrapper[last.w], {}).self

(***************************************************************************)
(* C16, amended.  __getstate__ issues one release request, to the cache:   *)
(* the first of the two that release() issues.  It issues none to the      *)
(* wrapped dataset.  The wrapper it leaves is the wrapper release()        *)
(* leaves.                                                                 *)
(***************************************************************************)
C16_Step ==
    Calls("getstate")
        => /\ ReleaseRequests(last'.calls) = <<"cache.release">>
           /\ Head(ReleaseRequests(_release(wrapper[last'.w], {}).calls))
                 = "cache.release"
           /\ wrapper'[last'.w] = _release(wrapper[last'.w], {}).self

C16_HookReleasesCacheOnly == [][C16_Step]_vars

\* __getstate__ cleared a cache that held data, with one release request
C16_Witness ==
    /\ last.op = "getstate"
    /\ last.pre \in Values
    /\ ReleaseRequests(last.calls) = <<"cache.release">>
    /\ wrapper[last.w].cache.data = EMPTY

(***************************************************************************)
(* C17.  Ordering inside the pre-transfer hook.  Every __getstate__,       *)
(* whether the cache holds data or not, logs a warning, then releases the  *)
(* cache, then returns the state: the state returned holds no cached data, *)
(* and holds the wrapped dataset, the _EPHEMERAL marker and the metadata   *)
(* of the wrapper.                                                         *)
(***************************************************************************)
C17_Step ==
    Calls("getstate")
        => /\ last'.ok
           /\ last'.calls = <<"logging.warning", "cache.release">>
           /\ ~CacheExists(last'.state.cache)
           /\ last'.state.built
           /\ last'.state.dataset = wrapper[last'.w].dataset
           /\ last'.state.EPHEMERAL
           /\ last'.state.metadata = wrapper[last'.w].metadata
           /\ last'.state.cache.copy_mode = wrapper[last'.w].cache.copy_mode

C17_HookOrdering == [][C17_Step]_vars

\* the state taken from a wrapper with metadata whose cache held data
C17_Witness ==
    /\ last.op = "getstate"
    /\ last.pre \in Values
    /\ last.calls[1] = "logging.warning"
    /\ last.state.metadata = "meta"
    /\ last.state.dataset \in {"live", "made"}
    /\ last.state.EPHEMERAL
    /\ last.state.cache.data = EMPTY

(***************************************************************************)
(* C18.  A cache-write failure during fill-on-miss is not swallowed.  When *)
(* a load finds the cache empty, the wrapped dataset's load returns and    *)
(* the cache's save raises, the load raises the cache's error instead of   *)
(* returning the data, and the cache is left empty.                        *)
(***************************************************************************)
C18_CacheWriteFailurePropagates ==
    (last.op = "load" /\ Count({"cache.save!"}, last.calls) > 0)
        => /\ last.pre = EMPTY
           /\ last.calls = <<"cache.exists", "dataset.load",
                             "cache.exists", "cache.save!">>
           /\ ~last.ok
           /\ last.err = "cache.save"
           /\ last.val = 0
           /\ ~CacheExists(wrapper[last.w].cache)

\* the wrapped dataset returned its data and the cache's save raised
C18_Witness ==
    /\ last.op = "load"
    /\ last.calls = <<"cache.exists", "dataset.load",
                      "cache.exists", "cache.save!">>
    /\ last.err = "cache.save"
    /\ store \in Values
    /\ wrapper[last.w].cache.data = EMPTY

(***************************************************************************)
(* C19.  exists has no side effects.  It leaves every wrapper, the cache   *)
(* included, and the persisted data as they were, in every state; and when *)
(* the cache holds data it answers true on the cache's word, without       *)
(* calling the wrapped dataset's exists.                                   *)
(***************************************************************************)
C19_Step ==
    Calls("exists")
        => /\ wrapper' = wrapper
           /\ store' = store
           /\ config' = config
           /\ CacheExists(wrapper[last'.w].cache)
                 => /\ last'.ok /\ last'.ret
                    /\ last'.calls = <<"cache.exists">>
           /\ Count({"dataset.load", "dataset.load!", "dataset.save",
                     "dataset.save!", "cache.save", "cache.save!",
                     "cache.release", "dataset.release"}, last'.calls) = 0

C19_ExistsNoSideEffect == [][C19_Step]_vars

\* exists found data in the wrapped dataset alone and left the cache empty
C19_Witness ==
    /\ last.op = "exists" /\ last.ok /\ last.ret
    /\ last.pre = EMPTY
    /\ last.calls = <<"cache.exists", "dataset.exists">>
    /\ wrapper[last.w].cache.data = EMPTY
    /\ store \in Values

(***************************************************************************)
(* C20.  Each wrapper has its own fresh cache.  A construction that        *)
(* returns has made one MemoryDataset, which holds no data, so that the    *)
(* first load reads the wrapped dataset; and no call on a wrapper changes  *)
(* another wrapper, its cache included, although all work on the same      *)
(* persisted data.                                                         *)
(***************************************************************************)
C20_Step ==
    /\ (Calls("construct") /\ last'.ok)
          => /\ wrapper'[last'.w].built
             /\ ~CacheExists(wrapper'[last'.w].cache)
             /\ Count({"MemoryDataset"}, last'.calls) = 1
    /\ (last.op = "construct" /\ last.ok /\ Next_("load")) => FirstLoad
    /\ Called
          => \A u \in Wrappers \ {last'.w} : wrapper'[u] = wrapper[u]

C20_OwnFreshCache == [][C20_Step]_vars

\* a save on one wrapper, while the other's cache holds other data
C20_Witness ==
    /\ \A u \in Wrappers : wrapper[u].built
    /\ last.op = "save" /\ last.ok
    /\ wrapper[last.w].cache.data = last.arg
    /\ \E u \in Wrappers \ {last.w} :
          /\ wrapper[u].cache.data \in Values
          /\ wrapper[u].cache.data # last.arg

====
